---- MODULE Spec2Model ----
(***************************************************************************)
(* Model of the FMCSA carrier-snapshot batch extractor.                    *)
(*                                                                         *)
(* Two pipeline variants live in the repository:                           *)
(*   "extractor" : src/extractor.js      (authorization + recency filter)  *)
(*   "part000"   : src/unnamed/part_000  (fleet-size filter, deep fetch)   *)
(* Both share fetchWithTimeout, fetchRetry and run() line for line.        *)
(*                                                                         *)
(* The specifications are defined over the same definitions:               *)
(*   SpecFetch  : one fetchRetry call, with a clock for the abort timer    *)
(*   SpecFilter : handleMC's evaluation of one fetched document            *)
(*   Spec       : run(), the windows of concurrent handleMC pipelines      *)
(*   SpecDelay  : run() under several DELAY settings                       *)
(*   SpecOrder  : run() with the order of completion remembered            *)
(*   SpecLive   : Spec with weak fairness of its steps                     *)
(***************************************************************************)
EXTENDS Integers, Sequences, FiniteSets, TLC

\* ---- program constants ----
MAX_RETRIES == 3
BACKOFF_BASE_MS == 2000
MAX_AGE_DAYS == 180
\* the floor of the inter-window delay: sleep(Math.max(50, DELAY))
MIN_DELAY_MS == 50

\* ---- bounds of the model ----
\* longest identifier list given to run()
MaxLen == 3
\* largest CONCURRENCY
MaxConcurrency == 2
\* largest `tries` argument given to fetchRetry in SpecFetch
MaxTries == 3
\* largest `timeout` argument given to fetchRetry in SpecFetch, in clock ticks
MaxTimeout == 2

VARIABLES
  \* --- SpecFetch: one call fetchRetry(url, tries, timeout) ---
  call,      \* the call's frame: position, loop index i, lastErr, result
  timeout,   \* the `timeout` argument, in clock ticks
  armed,     \* fetchWithTimeout: the abort timer is set and not yet cleared
  elapsed,   \* clock ticks since the current attempt started
  attemptLog, \* history: what each attempt ended with, <<"fail", err>> or <<"ok", body>>
  \* --- Spec, SpecFilter: one execution of run() ---
  variant,    \* which file runs: "extractor" (extractor.js) or "part000" (part_000)
  MODE,       \* process.env.MODE: "urls" or anything else ("both")
  CONCURRENCY,\* the window size
  mcCount,    \* mcList.length; the identifier at position p is p
  pool,       \* which documents the server may answer with: "run", "all", "good"
  track,      \* which histories are kept: a subset of {"caught", "order"}
  DELAY,      \* process.env.DELAY as a number, in ms
  runPc,      \* run(): "start", "await" (Promise.all), "sleep", "done", "fatal"
  i,          \* run()'s loop index (0-based, as in the code)
  procs,      \* per position: the handleMC pipeline of that identifier
  rows,       \* run()'s rows accumulator
  validUrls,  \* run()'s validUrls accumulator
  windows,    \* history: the slices dispatched so far, in order
  csvFile,    \* <<>> until fs.writeFileSync(outCsv, ...), then <<rows written>>
  urlFile,    \* <<>> until fs.writeFileSync(listPath, ...), then <<urls written>>
  timer,      \* ms left on run()'s sleep(Math.max(50, DELAY)); 0 when none runs
  sinceSettle,\* history: ms passed since a handleMC promise last settled
  settledSeq  \* history ("order"): the positions in the order their promises settled

fetchVars == <<call, timeout, armed, elapsed, attemptLog>>
runVars == <<variant, MODE, CONCURRENCY, mcCount, pool, track, DELAY, runPc, i,
             procs, rows, validUrls, windows, csvFile, urlFile, timer,
             sinceSettle, settledSeq>>
vars == <<fetchVars, runVars>>

\* ---- values ----
\* what a failed attempt throws when the timer does not fire: a non-ok status
\* (line 42), or the connection breaking (fetch() or resp.text() rejecting);
\* the abort timer gives "AbortError"
FetchErrors == {"HTTP 500", "ECONNRESET"}
Bodies == {"bodyA", "bodyB"}

(***************************************************************************)
(* fetchRetry (extractor.js 49-63, part_000 46-60) as steps on its frame.  *)
(* pc: "request" awaiting fetchWithTimeout, "body" awaiting resp.text(),   *)
(*     "sleep" awaiting sleep(backoff), "returned", "thrown".              *)
(***************************************************************************)
\* a backoff that starts one doubling too high
BackoffOneTooHigh(k) == BACKOFF_BASE_MS * (2 ^ (k + 1))

\* const backoff = BACKOFF_BASE_MS * Math.pow(2, i)
Backoff(k) == BACKOFF_BASE_MS * (2 ^ k)

\* a loop test that lets one more attempt through: i <= tries
LoopContinuesInclusive(k, tries) == k <= tries

\* for (let i = 0; i < tries; i++)
LoopContinues(k, tries) == k < tries

\* entry of fetchRetry: lastErr undefined, i = 0, loop test, first attempt issued
FR_Start(tries) ==
  [pc       |-> IF LoopContinues(0, tries) THEN "request" ELSE "thrown",
   i        |-> 0,
   tries    |-> tries,
   attempts |-> IF LoopContinues(0, tries) THEN 1 ELSE 0,
   lastErr  |-> IF LoopContinues(0, tries) THEN "none" ELSE "failed after attempts",
   backoffs |-> <<>>,
   slept    |-> 0,
   result   |-> "none"]

\* fetchWithTimeout resolved with an ok response; fetchRetry goes on to resp.text()
FR_Response(c) == [c EXCEPT !.pc = "body"]

\* return await resp.text()
FR_Return(c, body) == [c EXCEPT !.pc = "returned", !.result = body]

\* the value kept in lastErr by the catch block: lastErr = err
CaughtErr(old, err) == err

\* catch (err) { lastErr = err; backoff = ...; await sleep(backoff) }
FR_Catch(c, err) ==
  [c EXCEPT !.pc = "sleep",
            !.lastErr = CaughtErr(c.lastErr, err),
            !.backoffs = Append(c.backoffs, Backoff(c.i))]

\* sleep(backoff) resolved; i++; loop test; next attempt or throw lastErr
FR_Wake(c) ==
  LET b == c.backoffs[Len(c.backoffs)]
      more == LoopContinues(c.i + 1, c.tries)
  IN [c EXCEPT !.i = c.i + 1,
               !.slept = c.slept + b,
               !.pc = IF more THEN "request" ELSE "thrown",
               !.attempts = IF more THEN c.attempts + 1 ELSE c.attempts]

FR_InFlight(c) == c.pc \in {"request", "body"}

(***************************************************************************)
(* Documents.  A fetched snapshot page is described by the parts of it the *)
(* code looks at:                                                          *)
(*   marker : the status text of the page ("" when it has none)            *)
(*   auth   : the cell after the "Operating Authority Status:" label, as   *)
(*            the sequence of its words                                    *)
(*   date   : the cell after the "MCS-150 Form Date:" label; a date is     *)
(*            given by its age, the calendar days from it to today         *)
(*   pu     : the first run of [0-9,] after "Power Units", as characters   *)
(*   sms    : the page links to an SMS page (safer_xfr.aspx or /SMS/)      *)
(***************************************************************************)
MarkerTexts == {"", "Record Not Found", "RECORD INACTIVE"}

AuthCells ==
  { [present |-> FALSE, cell |-> <<>>],
    [present |-> TRUE,  cell |-> <<"AUTHORIZED", "FOR", "Property">>],
    [present |-> TRUE,  cell |-> <<"NOT", "AUTHORIZED">>],
    [present |-> TRUE,  cell |-> <<"Not", "Authorized">>],
    [present |-> TRUE,  cell |-> <<"S">>] }

\* ages of the form dates tried, around the MAX_AGE_DAYS boundary; -1 is tomorrow
DateAges == {-1, 0, MAX_AGE_DAYS - 1, MAX_AGE_DAYS, MAX_AGE_DAYS + 1}

DateCells ==
  { [kind |-> "absent",  age |-> 0],
    [kind |-> "empty",   age |-> 0],
    [kind |-> "garbage", age |-> 0] }
  \cup { [kind |-> "date", age |-> a] : a \in DateAges }

PUCells ==
  { [present |-> FALSE, digits |-> <<>>],
    [present |-> TRUE,  digits |-> <<"0">>],
    [present |-> TRUE,  digits |-> <<"1">>],
    [present |-> TRUE,  digits |-> <<"1", ",", "2", "0", "0">>] }

AllDocs ==
  [marker : MarkerTexts, auth : AuthCells, date : DateCells, pu : PUCells,
   sms : BOOLEAN]

\* seconds in a day: the code divides milliseconds by 1000 * 60 * 60 * 24
DAY == 60 * 60 * 24

\* times of day, in seconds after local midnight, at which `new Date()` is read
TimesOfDay == {0, 1, DAY \div 2, DAY - 1}

\* the marker looked for in html itself, without toLowerCase
ToLowerCaseSkipped(s) == s

\* String.prototype.toLowerCase on the status texts
ToLowerCase(s) ==
  CASE s = "Record Not Found" -> "record not found"
    [] s = "RECORD INACTIVE"  -> "record inactive"
    [] OTHER -> s

\* lowHtml.includes('record not found') || lowHtml.includes('record inactive')
HasMarker(doc) ==
  ToLowerCase(doc.marker) \in {"record not found", "record inactive"}

\* String.prototype.toUpperCase on the words of a status cell
ToUpperCase(w) ==
  CASE w = "Not"        -> "NOT"
    [] w = "Authorized" -> "AUTHORIZED"
    [] w = "Property"   -> "PROPERTY"
    [] OTHER -> w

\* the words made only of characters the class [\s\\S] of authRegex admits:
\* whitespace, a backslash or the letter S
AuthClassWords == {"S", "\\", "SS"}

\* html.match(authRegex): the cell must consist of [\s\\S] characters only
AuthMatch(a) ==
  /\ a.present
  /\ \A j \in 1..Len(a.cell) : a.cell[j] \in AuthClassWords

\* statusText.includes('NOT AUTHORIZED') on the upper-cased cell text
IncludesNotAuthorized(cell) ==
  \E j \in 1..(Len(cell) - 1) :
    /\ ToUpperCase(cell[j]) = "NOT"
    /\ ToUpperCase(cell[j + 1]) = "AUTHORIZED"

\* Filter 1 of extractor.js handleMC: authMatch && authMatch[1] && includes
AuthRejects(doc) ==
  /\ AuthMatch(doc.auth)
  /\ Len(doc.auth.cell) > 0
  /\ IncludesNotAuthorized(doc.auth.cell)

Abs(x) == IF x < 0 THEN -x ELSE x

\* Math.ceil(a / b) for a >= 0, b > 0
Ceil(a, b) == (a + b - 1) \div b

\* formDate = new Date(dateStr) is local midnight of the form date, today =
\* new Date() is `tod` seconds into today: diffTime, then diffDays
DiffDays(age, tod) == Ceil(Abs(tod + age * DAY), DAY)

\* if (diffDays > MAX_AGE_DAYS)
TooOld(diffDays) == diffDays > MAX_AGE_DAYS

\* Filter 2 of extractor.js handleMC.  extractDataByHeader gives '' for a
\* missing label or an empty cell; an unparseable text gives an Invalid Date,
\* diffDays is NaN and NaN > MAX_AGE_DAYS is false
RecencyVerdict(doc, tod) ==
  CASE doc.date.kind \in {"absent", "empty"} -> "missing_date"
    [] doc.date.kind = "garbage" -> "accept"
    [] OTHER -> IF TooOld(DiffDays(doc.date.age, tod)) THEN "stale" ELSE "accept"

DigitValue(c) ==
  CASE c = "0" -> 0 [] c = "1" -> 1 [] c = "2" -> 2 [] c = "3" -> 3
    [] c = "4" -> 4 [] c = "5" -> 5 [] c = "6" -> 6 [] c = "7" -> 7
    [] c = "8" -> 8 [] c = "9" -> 9

\* Number((puMatch[1] || '').replace(/,/g, '')): commas dropped, decimal value
RECURSIVE NumberOf(_, _)
NumberOf(digits, acc) ==
  IF digits = <<>> THEN acc
  ELSE IF Head(digits) = "," THEN NumberOf(Tail(digits), acc)
  ELSE NumberOf(Tail(digits), acc * 10 + DigitValue(Head(digits)))

\* a fleet-size test that is off by one: n <= 1 instead of n === 0
PURejectsBelowTwo(doc) ==
  /\ doc.pu.present
  /\ NumberOf(doc.pu.digits, 0) <= 1

\* part_000 handleMC: if (puMatch) { n = Number(...); if (!isNaN(n) && n === 0) }
PURejects(doc) ==
  /\ doc.pu.present
  /\ NumberOf(doc.pu.digits, 0) = 0

\* the predicate chain of handleMC after the snapshot was fetched, with the
\* reason each `return { valid: false }` logs
Verdict(v, doc, tod) ==
  IF HasMarker(doc) THEN "not_found"
  ELSE IF v = "extractor"
       THEN IF AuthRejects(doc) THEN "not_authorized" ELSE RecencyVerdict(doc, tod)
       ELSE IF PURejects(doc) THEN "empty_fleet" ELSE "accept"

(***************************************************************************)
(* handleMC (extractor.js 136-185, part_000 166-193) and, for part_000,    *)
(* extractOne (85-164), as the pipeline of one identifier.                 *)
(*   st    : "pending" (not dispatched), "inflight", "settled" (the        *)
(*           promise resolved), "rejected" (the promise rejected)          *)
(*   stage : which await the pipeline is at                                *)
(*           "snapshot"     handleMC's fetchRetry of the snapshot          *)
(*           "extract"      extractOne's fetchRetry of the same address    *)
(*           "sms_wait"     sleep(300) before the SMS page                 *)
(*           "sms"          fetchRetry of the SMS page                     *)
(*           "reg_wait"     sleep(300) before the registration page        *)
(*           "registration" fetchRetry of the registration page            *)
(*   caught: history ("caught"): the stage whose fetchRetry threw into a   *)
(*           catch block, "none" when none did                             *)
(***************************************************************************)
Variants == {"extractor", "part000"}
Modes == {"urls", "both"}

\* the documents the server answers with in Spec: accepted by both variants
\* (with an SMS link), not found (rejected by both), and not authorized;
\* SpecFilter answers with every document of AllDocs
RunDocs ==
  { [marker |-> "", auth |-> [present |-> TRUE, cell |-> <<"AUTHORIZED", "FOR", "Property">>],
     date |-> [kind |-> "date", age |-> 0],
     pu |-> [present |-> TRUE, digits |-> <<"1">>], sms |-> TRUE],
    [marker |-> "Record Not Found", auth |-> [present |-> TRUE, cell |-> <<"NOT", "AUTHORIZED">>],
     date |-> [kind |-> "absent", age |-> 0],
     pu |-> [present |-> FALSE, digits |-> <<>>], sms |-> FALSE],
    [marker |-> "", auth |-> [present |-> TRUE, cell |-> <<"NOT", "AUTHORIZED">>],
     date |-> [kind |-> "date", age |-> 0],
     pu |-> [present |-> TRUE, digits |-> <<"1">>], sms |-> FALSE] }

\* the documents of RunDocs that both variants accept and that link to the
\* SMS page
GoodDocs == {d \in RunDocs : d.marker = "" /\ d.sms}

DocPool ==
  CASE pool = "all" -> AllDocs
    [] pool = "good" -> GoodDocs
    [] OTHER -> RunDocs

\* the times of day `new Date()` may give: any of TimesOfDay where one
\* document is studied, noon where a whole list runs
ClockReadings == IF pool = "all" THEN TimesOfDay ELSE {DAY \div 2}

\* the SMS page either links to CarrierRegistration.aspx or does not
SmsDocs == {[reg |-> TRUE], [reg |-> FALSE]}
\* the registration page: the email found on it ("" when none), and whether a
\* phone number is found on it
RegDocs == {[email |-> "ops@carrier.example", phone |-> TRUE],
            [email |-> "", phone |-> FALSE]}

NoDoc ==
  [marker |-> "none", auth |-> [present |-> FALSE, cell |-> <<>>],
   date |-> [kind |-> "absent", age |-> 0],
   pu |-> [present |-> FALSE, digits |-> <<>>], sms |-> FALSE]
NoTime == 0 - 1

IdleCall ==
  [pc |-> "idle", i |-> 0, tries |-> 0, attempts |-> 0, lastErr |-> "none",
   backoffs |-> <<>>, slept |-> 0, result |-> "none"]

\* the return values of handleMC; url 0 and row <<>> stand for an absent key
InvalidResult == [valid |-> FALSE, url |-> 0, row |-> <<>>]
UrlResult(p) == [valid |-> TRUE, url |-> p, row |-> <<>>]
RowResult(p, row) == [valid |-> TRUE, url |-> p, row |-> <<row>>]

PendingProc ==
  [st |-> "pending", stage |-> "none", call |-> IdleCall, html |-> NoDoc,
   html2 |-> NoDoc, tod |-> NoTime, verdict |-> "none", email |-> "",
   phone |-> "none", fetched |-> 0, result |-> InvalidResult,
   outcome |-> "Pending", starts |-> 0, caught |-> "none"]

\* handleMC(mc) up to its first await: url = mcToSnapshotUrl(mc); fetchRetry(url, ...)
StartProc(pr) ==
  [PendingProc EXCEPT !.st = "inflight", !.stage = "snapshot",
                      !.call = FR_Start(MAX_RETRIES),
                      !.outcome = "InFlight", !.starts = pr.starts + 1]

\* the promise of handleMC resolves with `res`
Settle(pr, res, outcome) ==
  [pr EXCEPT !.st = "settled", !.stage = "done", !.call = IdleCall,
             !.result = res, !.outcome = outcome]

\* the promise of handleMC rejects
Reject(pr) ==
  [pr EXCEPT !.st = "rejected", !.stage = "done", !.call = IdleCall,
             !.outcome = "Errored"]

\* extractAllData(url, html) of extractor.js: the row is read from the html
\* handleMC already holds; email is always ''
ExtractAllData(p, html) ==
  [url |-> p, html |-> html, email |-> "", phone |-> "snapshot"]

\* the row extractOne returns: mcNumber, phone and companyName come from the
\* page extractOne fetched itself, email and possibly phone from the registration page
ExtractOneRow(p, pr) ==
  [url |-> p, html |-> pr.html2, email |-> pr.email, phone |-> pr.phone]

\* the clock is read (new Date()) only when dateStr is non-empty
ReadsClock(v, doc) ==
  /\ v = "extractor"
  /\ ~HasMarker(doc)
  /\ ~AuthRejects(doc)
  /\ doc.date.kind \in {"garbage", "date"}

\* handleMC after `html = await fetchRetry(...)`: the predicates, then the
\* urls-mode return, then extraction
AfterSnapshot(pr, p, doc, tod) ==
  LET v == Verdict(variant, doc, tod)
      seen == [pr EXCEPT !.html = doc, !.tod = tod, !.verdict = v,
                         !.fetched = pr.fetched + 1]
  IN IF v # "accept" THEN Settle(seen, InvalidResult, "Rejected")
     ELSE IF MODE = "urls" THEN Settle(seen, UrlResult(p), "Accepted")
     ELSE IF variant = "extractor"
          THEN Settle(seen, RowResult(p, ExtractAllData(p, doc)), "Accepted")
          ELSE [seen EXCEPT !.stage = "extract", !.call = FR_Start(MAX_RETRIES)]

\* extractOne after its own fetch of the snapshot: smsLink found or not
AfterExtractSnapshot(pr, p, doc) ==
  LET got == [pr EXCEPT !.html2 = doc, !.phone = "snapshot",
                        !.fetched = pr.fetched + 1]
  IN IF doc.sms
     THEN [got EXCEPT !.stage = "sms_wait", !.call = IdleCall]
     ELSE Settle(got, RowResult(p, ExtractOneRow(p, got)), "Accepted")

\* extractOne after the SMS page: regLink found or not
AfterSms(pr, p, smsDoc) ==
  IF smsDoc.reg
  THEN [pr EXCEPT !.stage = "reg_wait", !.call = IdleCall]
  ELSE Settle(pr, RowResult(p, ExtractOneRow(p, pr)), "Accepted")

\* extractOne after the registration page: email = foundEmail || '';
\* if (foundPhone) phone = foundPhone
AfterRegistration(pr, p, regDoc) ==
  LET got == [pr EXCEPT !.email = regDoc.email,
                        !.phone = IF regDoc.phone THEN "registration" ELSE pr.phone]
  IN Settle(got, RowResult(p, ExtractOneRow(p, got)), "Accepted")

\* extractOne without its inner try block: every throw reaches handleMC
CaughtByOuterOnly(stage) == "handleMC"

\* handleMC without its try block: only extractOne's inner catch is left
CaughtByInnerOnly(stage) ==
  IF stage \in {"sms", "registration"} THEN "extractOne" ELSE "nobody"

\* which try block catches a fetchRetry that threw at this stage
CaughtBy(stage) ==
  IF stage \in {"sms", "registration"} THEN "extractOne" ELSE "handleMC"

\* no try block at all: the throw rejects the promise of handleMC
OnThrowUncaught(pr, p) == Reject(pr)

\* fetchRetry threw: extractOne's inner catch logs and the row is returned as
\* it stands; handleMC's catch logs and returns { valid: false }
OnThrow(pr, p) ==
  LET at == [pr EXCEPT !.caught = IF "caught" \in track THEN pr.stage ELSE @]
  IN CASE CaughtBy(pr.stage) = "extractOne" ->
            Settle(at, RowResult(p, ExtractOneRow(p, at)), "Accepted")
       [] CaughtBy(pr.stage) = "handleMC" ->
            Settle(at, InvalidResult, "Errored")
       [] OTHER -> Reject(at)

\* what extractOne's own fetch of the snapshot address may be answered with:
\* the page with its SMS link, or by then a not-found page without one
\* (extractOne reads only the link, the names and the numbers from it)
RefetchDocs ==
  IF pool = "good" THEN GoodDocs ELSE {d \in RunDocs : d.sms \/ d.marker # ""}

\* the bodies a fetch at this stage may be answered with
BodiesAt(stage) ==
  CASE stage = "snapshot" -> DocPool
    [] stage = "extract" -> RefetchDocs
    [] stage = "sms" -> SmsDocs
    [] OTHER -> RegDocs

\* the continuation of the pipeline once fetchRetry returned `body`
OnReturn(pr, p, body, tod) ==
  CASE pr.stage = "snapshot" -> AfterSnapshot(pr, p, body, tod)
    [] pr.stage = "extract" -> AfterExtractSnapshot(pr, p, body)
    [] pr.stage = "sms" -> AfterSms(pr, p, body)
    [] OTHER -> AfterRegistration(pr, p, body)

(***************************************************************************)
(* run() (extractor.js 187-239, part_000 195-246)                          *)
(***************************************************************************)
Min(a, b) == IF a < b THEN a ELSE b

\* a slice one identifier too long: mcList.slice(i, i + CONCURRENCY + 1)
SliceOneTooLong(k) == (k + 1)..Min(k + CONCURRENCY + 1, mcCount)

\* mcList.slice(i, i + CONCURRENCY), as positions 1..mcCount
Slice(k) == (k + 1)..Min(k + CONCURRENCY, mcCount)

\* a loop step that skips an identifier: i += CONCURRENCY + 1
NextIndexSkipping(k) == k + CONCURRENCY + 1

\* i += CONCURRENCY
NextIndex(k) == k + CONCURRENCY

\* a barrier that opens at the first settled promise (Promise.race / any)
AnySettled(S) == \E p \in S : procs[p].st = "settled"

\* Promise.all(slice.map(handleMC)) resolves when every promise has resolved
AllSettled(S) == \A p \in S : procs[p].st = "settled"

\* slice.map(handleMC): every pipeline of the slice runs to its first await
Dispatch(k) ==
  /\ procs' = [p \in 1..mcCount |->
                 IF p \in Slice(k) THEN StartProc(procs[p]) ELSE procs[p]]
  /\ windows' = Append(windows, Slice(k))

\* for (const r of results) { if (r?.valid) { if (r.url) ...; if (r.row) ... } }
RECURSIVE CollectUrls(_, _, _)
CollectUrls(acc, from, to) ==
  IF from > to THEN acc
  ELSE LET r == procs[from].result
       IN CollectUrls(IF r.valid /\ r.url # 0 THEN Append(acc, r.url) ELSE acc,
                      from + 1, to)

\* the results pushed from the end of the slice to its start
RECURSIVE CollectRowsReversed(_, _, _)
CollectRowsReversed(acc, from, to) ==
  IF from > to THEN acc
  ELSE LET r == procs[to].result
       IN CollectRowsReversed(IF r.valid /\ r.row # <<>> THEN acc \o r.row ELSE acc,
                              from, to - 1)

RECURSIVE CollectRows(_, _, _)
CollectRows(acc, from, to) ==
  IF from > to THEN acc
  ELSE LET r == procs[from].result
       IN CollectRows(IF r.valid /\ r.row # <<>> THEN acc \o r.row ELSE acc,
                      from + 1, to)

\* run() from its entry to the first await: empty list returns, else window 1
RunStart ==
  /\ runPc = "start"
  /\ IF mcCount = 0
     THEN /\ runPc' = "done"
          /\ UNCHANGED <<procs, windows>>
     ELSE /\ runPc' = "await"
          /\ Dispatch(0)
  /\ UNCHANGED <<variant, MODE, CONCURRENCY, mcCount, pool, track, DELAY, i,
                 rows, validUrls, csvFile, urlFile, timer, sinceSettle,
                 settledSeq>>
  /\ UNCHANGED fetchVars

\* a pipeline step leaves run() alone, unless its promise rejects: Promise.all
\* rejects, run() rejects and run().catch calls process.exit(1)
ProcStep(p, pr) ==
  /\ procs' = [procs EXCEPT ![p] = pr]
  /\ runPc' = IF pr.st = "rejected" THEN "fatal" ELSE runPc
  /\ sinceSettle' = IF pr.st = "inflight" THEN sinceSettle ELSE 0
  /\ settledSeq' = IF pr.st = "settled" /\ "order" \in track
                   THEN Append(settledSeq, p) ELSE settledSeq
  /\ UNCHANGED <<variant, MODE, CONCURRENCY, mcCount, pool, track, DELAY, i,
                 rows, validUrls, windows, csvFile, urlFile, timer>>
  /\ UNCHANGED fetchVars

Running(p) == runPc = "await" /\ procs[p].st = "inflight"

\* fetchWithTimeout resolves with an ok response
P_FetchResolves(p) ==
  /\ Running(p)
  /\ procs[p].call.pc = "request"
  /\ ProcStep(p, [procs[p] EXCEPT !.call = FR_Response(@)])

\* fetchWithTimeout rejects: network error, non-ok status or the abort timer.
\* handleMC only logs the error's message, so one error stands for all here
\* (SpecFetch tells them apart)
P_FetchFails(p) ==
  /\ Running(p)
  /\ procs[p].call.pc = "request"
  /\ ProcStep(p, [procs[p] EXCEPT !.call = FR_Catch(@, "ECONNRESET")])

\* resp.text() resolves: fetchRetry returns and the pipeline runs to its next await
P_BodyRead(p) ==
  /\ Running(p)
  /\ procs[p].call.pc = "body"
  /\ \E body \in BodiesAt(procs[p].stage) :
       \E tod \in (IF procs[p].stage = "snapshot" /\ ReadsClock(variant, body)
                   THEN ClockReadings ELSE {NoTime}) :
         ProcStep(p, OnReturn([procs[p] EXCEPT !.call = FR_Return(@, "body")],
                              p, body, tod))

\* resp.text() rejects
P_BodyFails(p) ==
  /\ Running(p)
  /\ procs[p].call.pc = "body"
  /\ ProcStep(p, [procs[p] EXCEPT !.call = FR_Catch(@, "ECONNRESET")])

\* sleep(backoff) resolves: the next attempt, or fetchRetry throws lastErr
P_BackoffWake(p) ==
  /\ Running(p)
  /\ procs[p].call.pc = "sleep"
  /\ LET woke == [procs[p] EXCEPT !.call = FR_Wake(@)]
     IN ProcStep(p, IF woke.call.pc = "thrown" THEN OnThrow(woke, p) ELSE woke)

\* sleep(300) resolves: the SMS or registration fetch starts
P_CourtesyWake(p) ==
  /\ Running(p)
  /\ procs[p].stage \in {"sms_wait", "reg_wait"}
  /\ ProcStep(p, [procs[p] EXCEPT
                    !.stage = IF @ = "sms_wait" THEN "sms" ELSE "registration",
                    !.call = FR_Start(MAX_RETRIES)])

Max(a, b) == IF a > b THEN a ELSE b

\* a sleep without the floor: sleep(DELAY)
SleepLengthNoFloor == DELAY

\* Math.max(50, DELAY)
SleepLength == Max(MIN_DELAY_MS, DELAY)

\* await Promise.all(...) resolves: the results are pushed in slice order and
\* run() goes to sleep(Math.max(50, DELAY))
Collect ==
  /\ runPc = "await"
  /\ AllSettled(Slice(i))
  /\ validUrls' = CollectUrls(validUrls, i + 1, Min(i + CONCURRENCY, mcCount))
  /\ rows' = CollectRows(rows, i + 1, Min(i + CONCURRENCY, mcCount))
  /\ runPc' = "sleep"
  /\ timer' = SleepLength
  /\ UNCHANGED <<variant, MODE, CONCURRENCY, mcCount, pool, track, DELAY, i,
                 procs, windows, csvFile, urlFile, sinceSettle, settledSeq>>
  /\ UNCHANGED fetchVars

\* time passes while run() sleeps; the clock advances in steps of
\* MIN_DELAY_MS, and durations outside this sleep are not tracked
SleepTick ==
  /\ runPc = "sleep"
  /\ timer > 0
  /\ timer' = Max(0, timer - MIN_DELAY_MS)
  /\ sinceSettle' = sinceSettle + MIN_DELAY_MS
  /\ UNCHANGED <<variant, MODE, CONCURRENCY, mcCount, pool, track, DELAY,
                 runPc, i, procs, rows, validUrls, windows, csvFile, urlFile,
                 settledSeq>>
  /\ UNCHANGED fetchVars

\* an address file written in every mode: if (validUrls.length)
WritesUrlFileAnyMode == Len(validUrls) > 0

\* if (MODE === 'urls' && validUrls.length)
WritesUrlFile == MODE = "urls" /\ Len(validUrls) > 0

\* the inter-window sleep resolves: i += CONCURRENCY, then the next window is
\* dispatched, or the loop ends and the files are written
RunWake ==
  /\ runPc = "sleep"
  /\ timer = 0
  /\ i' = NextIndex(i)
  /\ IF i' < mcCount
     THEN /\ runPc' = "await"
          /\ Dispatch(i')
          /\ UNCHANGED <<csvFile, urlFile>>
     ELSE /\ runPc' = "done"
          /\ csvFile' = IF Len(rows) > 0 THEN <<rows>> ELSE <<>>
          /\ urlFile' = IF WritesUrlFile THEN <<validUrls>> ELSE <<>>
          /\ UNCHANGED <<procs, windows>>
  /\ UNCHANGED <<variant, MODE, CONCURRENCY, mcCount, pool, track, DELAY, rows,
                 validUrls, timer, sinceSettle, settledSeq>>
  /\ UNCHANGED fetchVars

(***************************************************************************)
(* SpecFetch: one fetchRetry call with the abort timer of fetchWithTimeout *)
(* (extractor.js 37-47, part_000 34-44) and a clock.                       *)
(***************************************************************************)
\* elapsed is followed this far past the timeout
MaxElapsed == MaxTimeout + 1

\* fetchWithTimeout's finally block: clearTimeout(id)
TimerAfterFetch == FALSE

\* run() is not executing
RunIdle ==
  /\ variant = "extractor"
  /\ MODE = "both"
  /\ CONCURRENCY = 1
  /\ mcCount = 0
  /\ pool = "run"
  /\ track = {}
  /\ DELAY = 0
  /\ timer = 0
  /\ sinceSettle = 0
  /\ settledSeq = <<>>
  /\ runPc = "done"
  /\ i = 0
  /\ procs = <<>>
  /\ rows = <<>>
  /\ validUrls = <<>>
  /\ windows = <<>>
  /\ csvFile = <<>>
  /\ urlFile = <<>>

InitFetch ==
  /\ \E t \in 1..MaxTries : call = FR_Start(t)
  /\ timeout \in 1..MaxTimeout
  /\ armed = TRUE
  /\ elapsed = 0
  /\ attemptLog = <<>>
  /\ RunIdle

\* await fetch(...) resolves with resp.ok: finally clears the timer, resp returned
FetchResolves ==
  /\ call.pc = "request"
  /\ call' = FR_Response(call)
  /\ armed' = TimerAfterFetch
  /\ UNCHANGED <<timeout, elapsed, attemptLog>>
  /\ UNCHANGED runVars

\* fetch rejects (network) or !resp.ok throws: finally clears the timer, catch runs
FetchFails ==
  /\ call.pc = "request"
  /\ \E e \in FetchErrors :
       /\ call' = FR_Catch(call, e)
       /\ attemptLog' = Append(attemptLog, <<"fail", e>>)
  /\ armed' = FALSE
  /\ UNCHANGED <<timeout, elapsed>>
  /\ UNCHANGED runVars

\* setTimeout(() => ctrl.abort(), ms) fires: fetch rejects with AbortError
TimerFires ==
  /\ armed
  /\ elapsed >= timeout
  /\ call.pc = "request"
  /\ call' = FR_Catch(call, "AbortError")
  /\ attemptLog' = Append(attemptLog, <<"fail", "AbortError">>)
  /\ armed' = FALSE
  /\ UNCHANGED <<timeout, elapsed>>
  /\ UNCHANGED runVars

\* await resp.text() resolves
BodyRead ==
  /\ call.pc = "body"
  /\ \E b \in Bodies :
       /\ call' = FR_Return(call, b)
       /\ attemptLog' = Append(attemptLog, <<"ok", b>>)
  /\ UNCHANGED <<timeout, armed, elapsed>>
  /\ UNCHANGED runVars

\* await resp.text() rejects (the connection breaks while the body streams)
BodyFails ==
  /\ call.pc = "body"
  /\ call' = FR_Catch(call, "ECONNRESET")
  /\ attemptLog' = Append(attemptLog, <<"fail", "ECONNRESET">>)
  /\ UNCHANGED <<timeout, armed, elapsed>>
  /\ UNCHANGED runVars

\* sleep(backoff) resolves: next loop iteration, a new attempt arms a new timer
BackoffWake ==
  /\ call.pc = "sleep"
  /\ call' = FR_Wake(call)
  /\ armed' = (call'.pc = "request")
  /\ elapsed' = 0
  /\ UNCHANGED <<timeout, attemptLog>>
  /\ UNCHANGED runVars

\* the clock advances while an attempt is in flight; a due timer fires first
Tick ==
  /\ FR_InFlight(call)
  /\ ~(armed /\ elapsed >= timeout)
  /\ elapsed < MaxElapsed
  /\ elapsed' = elapsed + 1
  /\ UNCHANGED <<call, timeout, armed, attemptLog>>
  /\ UNCHANGED runVars

NextFetch ==
  \/ FetchResolves
  \/ FetchFails
  \/ TimerFires
  \/ BodyRead
  \/ BodyFails
  \/ BackoffWake
  \/ Tick

SpecFetch == InitFetch /\ [][NextFetch]_vars

(***************************************************************************)
(* Spec: run() over a list of up to MaxLen identifiers.                    *)
(* SpecFilter: run() over one identifier, the server answering with any    *)
(* document of AllDocs.                                                    *)
(***************************************************************************)
\* no stand-alone fetchRetry call is executing
FetchIdle ==
  /\ call = IdleCall
  /\ timeout = 0
  /\ armed = FALSE
  /\ elapsed = 0
  /\ attemptLog = <<>>

InitRun ==
  /\ variant \in Variants
  /\ MODE \in Modes
  /\ runPc = "start"
  /\ i = 0
  /\ procs = [p \in 1..mcCount |-> PendingProc]
  /\ rows = <<>>
  /\ validUrls = <<>>
  /\ windows = <<>>
  /\ csvFile = <<>>
  /\ urlFile = <<>>
  /\ timer = 0
  /\ sinceSettle = 0
  /\ settledSeq = <<>>
  /\ FetchIdle

\* run() over lists of 0..MaxLen identifiers, with the smallest delay
Init ==
  /\ CONCURRENCY \in 1..MaxConcurrency
  /\ mcCount \in 0..MaxLen
  /\ pool = "run"
  /\ track = {}
  /\ DELAY = 0
  /\ InitRun

\* one identifier answered with any document; the try block that caught a
\* failed fetch is remembered
InitFilter ==
  /\ CONCURRENCY = 1
  /\ mcCount = 1
  /\ pool = "all"
  /\ track = {"caught"}
  /\ DELAY = 0
  /\ InitRun

\* the DELAY settings studied: below the floor of the sleep, and above it
Delays == {0, 2 * MIN_DELAY_MS}

\* run() with either DELAY; every snapshot request is answered with an
\* eligible page or fails
InitDelay ==
  /\ CONCURRENCY \in 1..MaxConcurrency
  /\ mcCount \in 0..MaxLen
  /\ pool = "good"
  /\ track = {}
  /\ DELAY \in Delays
  /\ InitRun

Next ==
  \/ RunStart
  \/ \E p \in 1..mcCount : P_FetchResolves(p)
  \/ \E p \in 1..mcCount : P_FetchFails(p)
  \/ \E p \in 1..mcCount : P_BodyRead(p)
  \/ \E p \in 1..mcCount : P_BodyFails(p)
  \/ \E p \in 1..mcCount : P_BackoffWake(p)
  \/ \E p \in 1..mcCount : P_CourtesyWake(p)
  \/ Collect
  \/ SleepTick
  \/ RunWake

Spec == Init /\ [][Next]_vars

SpecFilter == InitFilter /\ [][Next]_vars

SpecDelay == InitDelay /\ [][Next]_vars

\* run() with the order in which the promises settle remembered; every
\* snapshot request is answered with an eligible page or fails
InitOrder ==
  /\ CONCURRENCY \in 1..MaxConcurrency
  /\ mcCount \in 0..MaxLen
  /\ pool = "good"
  /\ track = {"order"}
  /\ DELAY = 0
  /\ InitRun

SpecOrder == InitOrder /\ [][Next]_vars

\* Spec with progress: a fetch attempt that was issued settles, a timer that
\* was set fires and a continuation that is ready runs, so some enabled
\* step is eventually taken
SpecLive == Init /\ [][Next]_vars /\ WF_vars(Next)

(***************************************************************************)
(* Claims about fetchRetry, checked under SpecFetch.                       *)
(***************************************************************************)
\* C6: a fetchRetry call with tries >= 1 never issues more than `tries`
\* attempts; when it ends by throwing, exactly `tries` attempts were issued,
\* all of them failed, and the error thrown is the error of the last one.
RetryExhaustion ==
  /\ call.attempts <= call.tries
  /\ Len(attemptLog) <= call.tries
  /\ call.pc = "thrown" =>
       /\ call.attempts = call.tries
       /\ Len(attemptLog) = call.tries
       /\ \A j \in 1..call.tries : attemptLog[j][1] = "fail"
       /\ call.lastErr = attemptLog[call.tries][2]

\* a call that threw after three failed attempts whose errors differ
RetryExhaustionWitness ==
  /\ call.pc = "thrown"
  /\ call.tries = MaxTries
  /\ Len(attemptLog) = MaxTries
  /\ attemptLog[1][2] # attemptLog[MaxTries][2]
  /\ call.lastErr = "AbortError"

\* C7: when the first k attempts fail and attempt k+1 succeeds (k < tries),
\* the call returns the body of attempt k+1, the backoff slept before attempt
\* j+1 was BACKOFF_BASE_MS * 2^(j-1) for j = 1..k (no jitter), and the total
\* slept is BACKOFF_BASE_MS * (2^k - 1).
RetrySuccessBackoff ==
  call.pc = "returned" =>
    LET k == Len(attemptLog) - 1 IN
      /\ k >= 0
      /\ k < call.tries
      /\ \A j \in 1..k : attemptLog[j][1] = "fail"
      /\ attemptLog[k + 1] = <<"ok", call.result>>
      /\ call.backoffs = [j \in 1..k |-> BACKOFF_BASE_MS * (2 ^ (j - 1))]
      /\ call.slept = BACKOFF_BASE_MS * ((2 ^ k) - 1)

\* two failed attempts, then the third returns its body after 2000 + 4000 ms
RetrySuccessBackoffWitness ==
  /\ call.pc = "returned"
  /\ Len(attemptLog) = 3
  /\ call.result = "bodyB"
  /\ call.slept = 6000

\* C8: no attempt (request plus reading the body) stays in flight longer
\* than `timeout` after it started.
HardAttemptTimeout == FR_InFlight(call) => elapsed <= timeout

(***************************************************************************)
(* Claims about run() and handleMC, checked under Spec and SpecFilter.     *)
(***************************************************************************)
Positions == 1..mcCount

\* the window (0-based) an identifier position belongs to
WindowOf(p) == (p - 1) \div CONCURRENCY

InSeq(x, seq) == \E k \in 1..Len(seq) : seq[k] = x
HasRowOf(p) == \E k \in 1..Len(rows) : rows[k].url = p

\* C1: no pipeline of a later window is started before every pipeline of
\* every earlier window has settled.
WindowBarrier ==
  \A p \in Positions : \A q \in Positions :
    (WindowOf(p) < WindowOf(q) /\ procs[q].st # "pending")
      => procs[p].st = "settled"

\* the second window is in flight after a first window of two in which one
\* pipeline failed and the other was accepted
WindowBarrierWitness ==
  /\ CONCURRENCY = 2
  /\ mcCount = 3
  /\ procs[1].outcome = "Errored"
  /\ procs[2].outcome = "Accepted"
  /\ procs[3].st = "inflight"
  /\ procs[3].call.pc = "sleep"

InFlight == {p \in Positions : procs[p].st = "inflight"}

\* C2: at most CONCURRENCY pipelines are in flight, and every window that
\* is not the last of the list holds exactly CONCURRENCY identifiers.
BoundedConcurrency ==
  /\ Cardinality(InFlight) <= CONCURRENCY
  /\ \A k \in 1..Len(windows) :
       /\ Cardinality(windows[k]) <= CONCURRENCY
       /\ (mcCount \notin windows[k]) => Cardinality(windows[k]) = CONCURRENCY

\* a full first window was dispatched, and the last window, shorter than
\* CONCURRENCY, is in flight
BoundedConcurrencyWitness ==
  /\ CONCURRENCY = 2
  /\ mcCount = 3
  /\ windows = <<{1, 2}, {3}>>
  /\ InFlight = {3}

\* the results of position p have been through run()'s collecting loop
Collected(p) ==
  CASE runPc = "await" -> p <= i
    [] runPc = "sleep" -> p <= i + CONCURRENCY
    [] runPc = "done"  -> TRUE
    [] OTHER -> FALSE

\* C3: a pipeline that fails settles with { valid: false } and never
\* rejects; run() is never aborted; the valid results of every collected
\* window are in the accumulators; and run() ends only after every
\* identifier has settled.
FailureContainment ==
  /\ runPc # "fatal"
  /\ \A p \in Positions :
       /\ procs[p].st # "rejected"
       /\ procs[p].outcome = "Errored" =>
            (procs[p].st = "settled" /\ ~procs[p].result.valid)
       /\ (Collected(p) /\ procs[p].result.valid) =>
            /\ InSeq(p, validUrls)
            /\ procs[p].result.row # <<>> => InSeq(procs[p].result.row[1], rows)
       /\ runPc = "done" => procs[p].st = "settled"

\* part_000, full mode, windows {1,2} and {3}: 1 failed inside extractOne, its
\* sibling 2 was accepted and gave its row, 3 failed on the snapshot itself
FailureContainmentWitness ==
  /\ runPc = "done"
  /\ variant = "part000"
  /\ MODE = "both"
  /\ CONCURRENCY = 2
  /\ mcCount = 3
  /\ procs[1].outcome = "Errored" /\ procs[1].fetched = 1
  /\ procs[2].outcome = "Accepted"
  /\ procs[3].outcome = "Errored" /\ procs[3].fetched = 0
  /\ validUrls = <<2>>
  /\ Len(rows) = 1 /\ rows[1].url = 2

Terminal == {"Accepted", "Rejected", "Errored"}

\* one step of an identifier's outcome: Pending -> InFlight -> a terminal
\* outcome, which then stays as it is, with its result
OutcomeStep(a, b) ==
  \/ /\ a.outcome \in Terminal
     /\ b = a
  \/ /\ a.outcome \notin Terminal
     /\ \/ b.outcome = a.outcome
        \/ a.outcome = "Pending" /\ b.outcome = "InFlight"
        \/ a.outcome = "InFlight" /\ b.outcome \in Terminal

\* C4: every position is dispatched to handleMC exactly once, goes Pending
\* -> InFlight -> one of Accepted, Rejected, Errored, and keeps that outcome.
ExactlyOneOutcome ==
  /\ [](\A p \in Positions :
          /\ procs[p].starts <= 1
          /\ (procs[p].outcome = "Pending") <=> (procs[p].starts = 0)
          /\ runPc = "done" =>
               (procs[p].starts = 1 /\ procs[p].outcome \in Terminal))
  /\ [][\A p \in Positions : OutcomeStep(procs[p], procs'[p])]_vars

\* a finished run of three identifiers with the three terminal outcomes
ExactlyOneOutcomeWitness ==
  /\ runPc = "done"
  /\ mcCount = 3
  /\ procs[1].outcome = "Accepted"
  /\ procs[2].outcome = "Rejected"
  /\ procs[3].outcome = "Errored"
  /\ \A p \in Positions : procs[p].starts = 1

\* the status cell says NOT AUTHORIZED, in any letter case
SaysNotAuthorized(a) ==
  /\ a.present
  /\ \E j \in 1..(Len(a.cell) - 1) :
       /\ a.cell[j] \in {"NOT", "Not", "not"}
       /\ a.cell[j + 1] \in {"AUTHORIZED", "Authorized", "authorized"}

\* the eligibility predicates of a variant, read off the document: no
\* not-found/inactive marker; extractor.js: not NOT AUTHORIZED, and a form
\* date at most MAX_AGE_DAYS days from today; part_000: Power Units not 0
Eligible(v, doc) ==
  /\ doc.marker = ""
  /\ v = "extractor" =>
       /\ ~SaysNotAuthorized(doc.auth)
       /\ doc.date.kind = "date"
       /\ Abs(doc.date.age) <= MAX_AGE_DAYS
  /\ v = "part000" =>
       ~(doc.pu.present /\ doc.pu.digits \in {<<"0">>, <<"0", "0">>})

FromAccepted(p) ==
  /\ procs[p].outcome = "Accepted"
  /\ procs[p].fetched >= 1
  /\ Eligible(variant, procs[p].html)

\* C5: every row and every address in the accumulators comes from an
\* identifier whose snapshot was fetched and passed every eligibility
\* predicate of the variant; Rejected and Errored identifiers contribute nothing.
RecordsOnlyForAccepted ==
  /\ \A k \in 1..Len(rows) : FromAccepted(rows[k].url)
  /\ \A k \in 1..Len(validUrls) : FromAccepted(validUrls[k])
  /\ \A p \in Positions :
       procs[p].outcome \in {"Rejected", "Errored"} =>
         (~HasRowOf(p) /\ ~InSeq(p, validUrls))

\* C9: an identifier whose fetched snapshot carries the not-found or
\* inactive marker, in any letter case, is rejected as not found whatever
\* else the page says: no further fetch, no row, no address.
NotFoundPrecedence ==
  \A p \in Positions :
    (procs[p].fetched >= 1 /\ procs[p].html.marker # "") =>
      /\ procs[p].verdict = "not_found"
      /\ procs[p].st = "settled"
      /\ procs[p].outcome = "Rejected"
      /\ procs[p].result = InvalidResult
      /\ procs[p].fetched = 1
      /\ ~HasRowOf(p)
      /\ ~InSeq(p, validUrls)

\* a finished run whose page says RECORD INACTIVE and would pass every
\* other predicate of either variant
NotFoundPrecedenceWitness ==
  /\ runPc = "done"
  /\ mcCount = 1
  /\ procs[1].html.marker = "RECORD INACTIVE"
  /\ procs[1].html.auth.cell = <<"AUTHORIZED", "FOR", "Property">>
  /\ procs[1].html.date = [kind |-> "date", age |-> 0]
  /\ procs[1].html.pu.digits = <<"1">>
  /\ procs[1].verdict = "not_found"
  /\ rows = <<>> /\ validUrls = <<>>

\* C10: in extractor.js, a page that passes the marker and authorization
\* checks and whose form date is exactly MAX_AGE_DAYS days before today
\* passes the recency check, and one MAX_AGE_DAYS + 1 days before today
\* fails it, at any time of day.
RecencyBoundary ==
  \A p \in Positions :
    ( /\ variant = "extractor"
      /\ procs[p].fetched >= 1
      /\ ~HasMarker(procs[p].html)
      /\ ~AuthRejects(procs[p].html)
      /\ procs[p].html.date.kind = "date" ) =>
      /\ procs[p].html.date.age = MAX_AGE_DAYS => procs[p].verdict = "accept"
      /\ procs[p].html.date.age = MAX_AGE_DAYS + 1 => procs[p].verdict = "stale"

\* the pipeline of p fetched its snapshot and the page went past the marker
\* test of handleMC
PastMarker(p) ==
  /\ procs[p].fetched >= 1
  /\ ~HasMarker(procs[p].html)

\* C11: in extractor.js, a page that passes the marker and authorization
\* checks and has no form-date label, an empty form-date value, or a
\* non-empty value that does not parse as a date, is rejected: no row and
\* no address for it.
MissingDateRejected ==
  \A p \in Positions :
    ( /\ variant = "extractor"
      /\ PastMarker(p)
      /\ ~AuthRejects(procs[p].html)
      /\ procs[p].html.date.kind \in {"absent", "empty", "garbage"} ) =>
      /\ procs[p].outcome = "Rejected"
      /\ procs[p].result = InvalidResult
      /\ ~HasRowOf(p)
      /\ ~InSeq(p, validUrls)

\* C12: in extractor.js, a page without marker whose authority status cell
\* contains NOT AUTHORIZED, in any letter case and among other text, is
\* rejected whatever its form date: no row and no address for it.
NotAuthorizedRejected ==
  \A p \in Positions :
    ( /\ variant = "extractor"
      /\ PastMarker(p)
      /\ SaysNotAuthorized(procs[p].html.auth) ) =>
      /\ procs[p].outcome = "Rejected"
      /\ procs[p].result = InvalidResult
      /\ ~HasRowOf(p)
      /\ ~InSeq(p, validUrls)

\* the number a Power Units value stands for, read as a person reads it
PowerUnitsShown(digits) ==
  CASE digits = <<"0">> -> 0
    [] digits = <<"1">> -> 1
    [] digits = <<"1", ",", "2", "0", "0">> -> 1200

\* C13: in part_000, a page without marker whose Power Units value is 0 is
\* rejected (no further fetch, no row, no address); with a value of 1 or
\* more, thousands separators included, the fleet-size test does not reject
\* and the identifier goes on to be accepted.
FleetSizePredicate ==
  \A p \in Positions :
    ( /\ variant = "part000"
      /\ PastMarker(p)
      /\ procs[p].html.pu.present ) =>
      /\ PowerUnitsShown(procs[p].html.pu.digits) = 0 =>
           /\ procs[p].verdict = "empty_fleet"
           /\ procs[p].outcome = "Rejected"
           /\ procs[p].result = InvalidResult
           /\ procs[p].fetched = 1
           /\ ~HasRowOf(p)
           /\ ~InSeq(p, validUrls)
      /\ PowerUnitsShown(procs[p].html.pu.digits) >= 1 =>
           /\ procs[p].verdict = "accept"
           /\ procs[p].outcome # "Rejected"

\* finished runs of part_000: 1,200 power units accepted with its row in the
\* CSV file or its address in the address file
FleetSizePredicateWitness ==
  /\ runPc = "done"
  /\ variant = "part000"
  /\ mcCount = 1
  /\ procs[1].html.pu.digits = <<"1", ",", "2", "0", "0">>
  /\ procs[1].outcome = "Accepted"
  /\ (csvFile # <<>> \/ urlFile # <<>>)

\* the accepted identifiers among from..to, in list order
RECURSIVE AcceptedIn(_, _)
AcceptedIn(from, to) ==
  IF from > to THEN <<>>
  ELSE (IF procs[from].outcome = "Accepted" THEN <<from>> ELSE <<>>)
         \o AcceptedIn(from + 1, to)

\* C15: with MODE urls no field is extracted: rows stays empty, no CSV file
\* is written and no pipeline fetches anything after its snapshot; a
\* finished run with an accepted identifier has written an address file
\* holding exactly the addresses of the accepted identifiers, and one with
\* none has written no file. With another MODE no address file is written.
AddressesOnlyMode ==
  /\ MODE = "urls" =>
       /\ rows = <<>>
       /\ csvFile = <<>>
       /\ \A p \in Positions :
            /\ procs[p].fetched <= 1
            /\ procs[p].stage \in {"none", "snapshot", "done"}
            /\ procs[p].result.row = <<>>
       /\ runPc = "done" =>
            urlFile = IF AcceptedIn(1, mcCount) # <<>>
                      THEN <<AcceptedIn(1, mcCount)>> ELSE <<>>
  /\ MODE # "urls" => urlFile = <<>>

\* a finished urls-mode run of part_000 over three identifiers, two of
\* them accepted, with both addresses in the file
AddressesOnlyModeWitness ==
  /\ runPc = "done"
  /\ MODE = "urls"
  /\ variant = "part000"
  /\ mcCount = 3
  /\ Len(AcceptedIn(1, mcCount)) = 2
  /\ urlFile = <<AcceptedIn(1, mcCount)>>
  /\ csvFile = <<>>

\* the rows of position p in the accumulator
RowsOf(p) == {k \in 1..Len(rows) : rows[k].url = p}

\* C18: in part_000 with MODE not urls, when the fetch of the SMS page or
\* of the registration page fails for good, the identifier is still
\* Accepted and contributes exactly one row, whose number, phone and company
\* name come from the snapshot extractOne fetched and whose email is empty.
SecondaryFailureTolerated ==
  \A p \in Positions :
    procs[p].caught \in {"sms", "registration"} =>
      /\ variant = "part000" /\ MODE = "both"
      /\ procs[p].st = "settled"
      /\ procs[p].outcome = "Accepted"
      /\ procs[p].result =
           RowResult(p, [url |-> p, html |-> procs[p].html2, email |-> "",
                         phone |-> "snapshot"])
      /\ procs[p].html2.sms
      /\ Cardinality(RowsOf(p)) = IF Collected(p) THEN 1 ELSE 0
      /\ runPc = "done" => csvFile = <<procs[p].result.row>>

\* a finished run whose registration fetch failed after the SMS page was
\* read, with the row in the CSV file
SecondaryFailureToleratedWitness ==
  /\ runPc = "done"
  /\ mcCount = 1
  /\ procs[1].caught = "registration"
  /\ Len(rows) = 1
  /\ rows[1].email = ""
  /\ csvFile = <<rows>>

\* C19: every accepted identifier's row is built from the snapshot body the
\* predicates of handleMC evaluated, the snapshot address is fetched
\* successfully at most once per identifier, and with MODE not urls an
\* identifier that passed every predicate always ends Accepted with a row.
SinglePrimaryFetch ==
  \A p \in Positions :
    /\ procs[p].fetched <= 1
    /\ procs[p].result.row # <<>> =>
         procs[p].result.row[1].html = procs[p].html
    /\ (MODE = "both" /\ procs[p].st = "settled" /\ procs[p].verdict = "accept") =>
         /\ procs[p].outcome = "Accepted"
         /\ procs[p].result.row # <<>>

\* C20: fetchRetry sleeps a backoff only when another attempt follows, and
\* a call whose attempts all failed has slept
\* BACKOFF_BASE_MS * (2^(tries-1) - 1) ms in total when it throws.
BackoffOnlyBetweenAttempts ==
  /\ call.pc = "sleep" => call.i + 1 < call.tries
  /\ call.pc = "thrown" =>
       /\ Len(call.backoffs) = call.tries - 1
       /\ call.slept = BACKOFF_BASE_MS * (2 ^ (call.tries - 1) - 1)

\* C16: from the moment the last pipeline of a window settles to the moment
\* the next window is dispatched at least max(50, DELAY) ms pass, however
\* long the window took: while no pipeline of a later window has settled,
\* the time since the last settle is at least that delay.
InterWindowDelay ==
  ( /\ Len(windows) >= 2
    /\ \A p \in windows[Len(windows)] : procs[p].st = "inflight" ) =>
    sinceSettle >= (IF DELAY > MIN_DELAY_MS THEN DELAY ELSE MIN_DELAY_MS)

\* the second window just dispatched after the floor delay, DELAY being 0
InterWindowDelayWitness ==
  /\ Len(windows) = 2
  /\ runPc = "await"
  /\ \A p \in windows[2] : procs[p].st = "inflight"
  /\ DELAY = 0
  /\ sinceSettle = MIN_DELAY_MS

\* the identifiers of the rows of a CSV file, in file order
UrlsOf(file) == [k \in 1..Len(file) |-> file[k].url]

\* the members of seq that carry a row, in the order of seq
WithRow(seq) == SelectSeq(seq, LAMBDA p : procs[p].result.row # <<>>)

\* C14 as stated: the rows of the written CSV are in window order and,
\* within a window, in the order in which the pipelines completed.
RowsInCompletionOrder ==
  csvFile # <<>> => UrlsOf(csvFile[1]) = WithRow(settledSeq)

\* C14, amended: the rows of the written CSV are in the order of the
\* identifier list: window order and, within a window, slice order,
\* whatever the order in which the pipelines completed.
RowsInListOrder ==
  /\ \A j, k \in 1..Len(rows) : j < k => rows[j].url < rows[k].url
  /\ csvFile # <<>> =>
       /\ UrlsOf(csvFile[1]) = WithRow([p \in 1..mcCount |-> p])
       /\ \A k \in 1..Len(csvFile[1]) :
            csvFile[1][k] = procs[csvFile[1][k].url].result.row[1]

\* a written CSV with both rows of a two-identifier window, the second
\* identifier having completed first
RowsInListOrderWitness ==
  /\ csvFile # <<>>
  /\ CONCURRENCY = 2
  /\ UrlsOf(csvFile[1]) = <<1, 2>>
  /\ settledSeq = <<2, 1>>

\* the number of windows of n identifiers, c at a time: Math.ceil(n / c)
WindowCount(n, c) == (n + c - 1) \div c

\* C17: with CONCURRENCY >= 1 and every step that can happen eventually
\* happening, run() reaches its end, after exactly ceil(n / CONCURRENCY)
\* windows and with every identifier Accepted, Rejected or Errored,
\* whichever fetches fail; before the end some step is always possible.
BatchCompletion ==
  /\ <>(runPc = "done")
  /\ [](runPc = "done" =>
         /\ Len(windows) = WindowCount(mcCount, CONCURRENCY)
         /\ \A p \in Positions : procs[p].outcome \in Terminal)
  /\ [](runPc # "done" => ENABLED Next)

\* a finished run of three identifiers, two at a time, in two windows, one
\* identifier errored and one accepted
BatchCompletionWitness ==
  /\ runPc = "done"
  /\ mcCount = 3
  /\ CONCURRENCY = 2
  /\ Len(windows) = 2
  /\ procs[1].outcome = "Errored"
  /\ procs[3].outcome = "Accepted"

====
